---- MODULE Spec2Model ----
(***************************************************************************)
(* Model of the swap poller of message-push (src/logic/graph_task.go):     *)
(* the state file and the in-memory configData guarded by configMutex,     *)
(* loadConfig / saveConfig, the watcher goroutine that reloads the file    *)
(* on every Write event, fetchSwaps' pagination against the remote swap    *)
(* log, sendNotification and the reconciliation pass GraphTask.            *)
(*                                                                         *)
(* Strings of the program are strings here.  A decimal string is the       *)
(* ToString of its number, and strconv.Atoi is modelled by Atoi below.     *)
(* The file system is assumed not to fail on os.Create / Encode; HTTP      *)
(* requests (the fetch POST, each notification GET) may fail at any time.  *)
(***************************************************************************)
EXTENDS Integers, Sequences, FiniteSets, TLC

\* ------------------------------------------------------------------ bounds
\* Remote swaps carry block numbers BaseBlock+1 .. BaseBlock+MaxBlock.
MaxBlock == 3
\* The remote log starts with up to MaxLog swaps and gains swaps while it has
\* fewer than logCap: MaxLog in Spec, one more in SpecDeep.
MaxLog == 2
\* Small blocks that precede / follow the bulk block in a big remote log.
MaxSmall == 1
\* Swap amounts are -MaxAmount .. MaxAmount times the smallest amount that
\* shows with five fractional digits.
MaxAmount == 2

\* --------------------------------------------------------------- constants
\* pageSize := 50 in fetchSwaps
pageSize == 50
\* LastBlockNumber: "21612681" of the default config
BaseBlock == 21612681
\* big.NewFloat(1e8), the fixed-point scale of the amounts
Scale == 100000000
\* wbtcPrice := big.NewFloat(100000.0)
DefaultPrice == 100000

DefaultURL == "https://api.day.app/iuizSoSLLvtMTZhhmuWetY/%E4%BA%A4%E6%98%93%E6%8F%90%E9%86%92/"
SecondURL == "https://api.day.app/second/"
SeedTxHash == "0xccce6256453e517062bb4cfb74494a0bdb2fefa793f75d3d31cf041d76bf99fd"

\* ------------------------------------------------------------------- state
VARIABLES
    remote,       \* the remote swap log, ascending by block (append-only)
    logCap,       \* the length up to which the remote log grows in this run
    file,         \* content of app_config.json
    edited,       \* somebody has rewritten the file while the program runs
    events,       \* a Write event is pending for the watcher (0 or 1)
    configData,   \* the global configData
    wpc,          \* position of the loader: init()'s loadConfig, then watchConfig
    newConfig,    \* loadConfig's local newConfig
    booted,       \* init() has returned, StartTasks scheduled GraphTask
    pc,           \* position of the GraphTask job
    startBlock,   \* fetchSwaps' startBlock
    allSwaps,     \* fetchSwaps' allSwaps, then GraphTask's swaps
    idx,          \* index of the range loop over swaps (1-based)
    newTxHashes,  \* GraphTask's newTxHashes
    lastSend,     \* what the last sendNotification call did
    fresh,        \* history: configData and file are as the last checkpoint left them
    passStart,    \* history: configData, file and fresh when the pass started
    handed,       \* history: hashes handed to sendNotification in this pass
    pages,        \* history: lengths of the pages of this fetch, or of the last
                  \* fetch when it failed
    undelivered,  \* history: a hash appended to newTxHashes with no GET answered 200
    overlap,      \* history: what the loader assigned to configData during this pass
    outcome,      \* history: how the last finished pass returned
    earlier       \* history: the hashes handed to sendNotification in the
                  \* passes that have returned, where the run records them

vars == <<remote, logCap, file, edited, events, configData, wpc, newConfig,
          booted, pc, startBlock, allSwaps, idx, newTxHashes, lastSend,
          fresh, passStart, handed, pages, undelivered, overlap, outcome,
          earlier>>

loaderVars == <<wpc, newConfig, booted>>
passVars == <<pc, startBlock, allSwaps, idx, newTxHashes, lastSend>>
histVars == <<fresh, passStart, handed, pages, undelivered, overlap, outcome,
              earlier>>

\* ----------------------------------------------------------------- helpers
Min(a, b) == IF a < b THEN a ELSE b

Range(s) == {s[i] : i \in 1..Len(s)}

Blocks == (BaseBlock + 1)..(BaseBlock + MaxBlock)

\* The numbers whose decimal strings occur in the model.
KnownNums == {0} \cup (BaseBlock..(BaseBlock + MaxBlock))

\* strconv.Atoi with the error dropped: the number, or 0 when s is no number.
Atoi(s) ==
    IF \E n \in KnownNums : ToString(n) = s
    THEN CHOOSE n \in KnownNums : ToString(n) = s
    ELSE 0

\* contains(slice, item)
contains(slice, item) == \E i \in 1..Len(slice) : slice[i] = item

\* Hash of the p-th swap of the remote log; the first is the seed transaction.
Tx(p) == IF p = 1 THEN SeedTxHash ELSE "0x" \o ToString(p)

GoodTimestamp == "1700000000"
BadTimestamp == "n/a"

\* strconv.ParseInt(swap.BlockTimestamp, 10, 64) succeeds
ParsesAsInt(s) == s = GoodTimestamp

\* a string that is no number
NotANumber == "abc"

\* The amounts that have a decimal string in the model.
AmountStep == Scale \div 100000
Amounts == {k * AmountStep : k \in (-MaxAmount)..MaxAmount}

\* amount0, amount1 and btcPrice of the swaps of the logs of Spec
GoodAmount0 == ToString(-AmountStep)
GoodAmount1 == ToString(2 * AmountStep)
NoPrice == ""

\* The Swap the API returns for a log entry.
ToSwap(e) ==
    [BlockNumber |-> ToString(e.block), BlockTimestamp |-> e.ts,
     TransactionHash |-> e.tx, Amount0 |-> e.amount0, Amount1 |-> e.amount1,
     BtcPrice |-> e.btcPrice]

\* ------------------------------------------------------------- config, file
ZeroConfig ==
    [BarkAPIURLs |-> <<>>, LastBlockNumber |-> "", CurrentTxHashes |-> <<>>]

DefaultConfig ==
    [BarkAPIURLs |-> <<DefaultURL>>, LastBlockNumber |-> "21612681",
     CurrentTxHashes |-> <<SeedTxHash>>]

\* A JSON document is its kind, the values of the three keys of Config, the
\* keys of Config it does not have (absent), and whether it has a key that
\* Config does not have (unknown).

\* an encoder of a struct that has no BarkAPIURLs field
EncodeStorage(cfg) ==
    [kind |-> "json",
     barkAPIURLs |-> <<>>,
     lastBlockNumber |-> cfg.LastBlockNumber,
     currentTxHashes |-> cfg.CurrentTxHashes,
     absent |-> {"barkAPIURLs"},
     unknown |-> FALSE]

\* json.NewEncoder(file).Encode(&configData): the document with the three
\* json keys of Config and no other.
Encode(cfg) ==
    [kind |-> "json",
     barkAPIURLs |-> cfg.BarkAPIURLs,
     lastBlockNumber |-> cfg.LastBlockNumber,
     currentTxHashes |-> cfg.CurrentTxHashes,
     absent |-> {},
     unknown |-> FALSE]

\* decoder.Decode(&newConfig) of a decodable file into the zero newConfig:
\* a key the document lacks leaves the zero value, a key that Config lacks
\* is ignored.
Decode(f) ==
    [BarkAPIURLs |->
        IF "barkAPIURLs" \in f.absent THEN <<>> ELSE f.barkAPIURLs,
     LastBlockNumber |->
        IF "lastBlockNumber" \in f.absent THEN "" ELSE f.lastBlockNumber,
     CurrentTxHashes |->
        IF "currentTxHashes" \in f.absent THEN <<>> ELSE f.currentTxHashes]

NoFile == [Encode(ZeroConfig) EXCEPT !.kind = "missing"]
\* os.Create truncated the file: Decode fails with EOF
EmptyFile == [Encode(ZeroConfig) EXCEPT !.kind = "empty"]
\* a file that is not JSON of a Config
GarbageFile == [Encode(ZeroConfig) EXCEPT !.kind = "garbage"]

Decodable(f) == f.kind = "json"

\* accessors (each takes configMutex for one field)
getBarkAPIURLs == configData.BarkAPIURLs
getLastBlockNumber == configData.LastBlockNumber
getCurrentTxHashes == configData.CurrentTxHashes

\* a Write event is raised; the kernel coalesces the unread events of a file
Notify(n) == 1

\* -------------------------------------------------------------- remote API
\* The swaps of the log with blockNumber > gt, newest first: the answer to
\* swaps(first: first, orderBy: blockNumber, orderDirection: desc,
\*       where: {blockNumber_gt: gt})
\* a query with where: {blockNumber_gte: gt}
QueryFromBlock(log, first, gt) ==
    LET newer == SelectSeq(log, LAMBDA e : e.block >= gt)
        n == Len(newer)
    IN  [j \in 1..Min(first, n) |-> ToSwap(newer[n - j + 1])]

Query(log, first, gt) ==
    LET newer == SelectSeq(log, LAMBDA e : e.block > gt)
        n == Len(newer)
    IN  [j \in 1..Min(first, n) |-> ToSwap(newer[n - j + 1])]

\* ------------------------------------------------------------- fetchSwaps
\* startBlock = newStartBlock: the block number of the last swap of the page
NextStartBlock(page) == Atoi(page[Len(page)].BlockNumber)

\* a loop that only breaks on an empty page
MorePagesUntilEmpty(page) == ~(Len(page) = 0)

\* the loop goes on to another page: neither break was taken
MorePages(page) == ~(Len(page) = 0) /\ ~(Len(page) < pageSize)

\* allSwaps after the page
Accumulate(all, page) == IF Len(page) = 0 THEN all ELSE all \o page

\* ------------------------------------------------------------- FormatSwap
\* A *big.Float: nil, or a sign and a magnitude (zero has a sign too).
NilFloat == [nil |-> TRUE, neg |-> FALSE, mag |-> 0]

\* new(big.Float).SetString(s) with the ok result dropped: nil on failure
SetString(s) ==
    IF \E a \in Amounts : ToString(a) = s
    THEN LET a == CHOOSE a \in Amounts : ToString(a) = s
         IN  [nil |-> FALSE, neg |-> a < 0, mag |-> IF a < 0 THEN -a ELSE a]
    ELSE NilFloat

\* x.Sign()
Sign(x) == IF x.mag = 0 THEN 0 ELSE IF x.neg THEN -1 ELSE 1

\* new(big.Float).Neg(x)
Neg(x) == [x EXCEPT !.neg = ~x.neg]

\* a test amount0Float.Sign() <= 0
DirectionZeroSold(swap) ==
    LET amount0Float == SetString(swap.Amount0)
        amount1Float == SetString(swap.Amount1)
    IN  IF Sign(amount0Float) <= 0
        THEN [amountIn |-> amount1Float, amountOut |-> Neg(amount0Float),
              tokenIn |-> "WBTC", tokenOut |-> "UNIBTC"]
        ELSE [amountIn |-> amount0Float, amountOut |-> Neg(amount1Float),
              tokenIn |-> "UNIBTC", tokenOut |-> "WBTC"]

\* amountIn, amountOut, tokenIn, tokenOut of FormatSwap
Direction(swap) ==
    LET amount0Float == SetString(swap.Amount0)
        amount1Float == SetString(swap.Amount1)
    IN  IF Sign(amount0Float) < 0
        THEN [amountIn |-> amount1Float, amountOut |-> Neg(amount0Float),
              tokenIn |-> "WBTC", tokenOut |-> "UNIBTC"]
        ELSE [amountIn |-> amount0Float, amountOut |-> Neg(amount1Float),
              tokenIn |-> "UNIBTC", tokenOut |-> "WBTC"]

\* FormatSwap dereferences a nil *big.Float: amount0Float.Sign(), Neg or Mul
FormatPanics(swap) ==
    SetString(swap.Amount0).nil \/ SetString(swap.Amount1).nil

\* The prices that have a decimal string in the model.
Prices == {DefaultPrice \div 2}

\* wbtcPrice: btcPrice when it is not empty and parses, else the default
WbtcPrice(swap) ==
    IF swap.BtcPrice # "" /\ \E q \in Prices : ToString(q) = swap.BtcPrice
    THEN CHOOSE q \in Prices : ToString(q) = swap.BtcPrice
    ELSE DefaultPrice

\* s with zeros in front up to width characters
RECURSIVE Pad(_, _)
Pad(s, width) == IF Len(s) < width THEN Pad("0" \o s, width) ELSE s

\* Text('f', digits) of num / den, num >= 0, den a multiple of step, where
\* step is den / 10^digits; rounded to the nearest
Text(neg, num, step, digits, unitsPerOne) ==
    LET units == (num + step \div 2) \div step
    IN  (IF neg THEN "-" ELSE "") \o ToString(units \div unitsPerOne) \o "."
        \o Pad(ToString(units % unitsPerOne), digits)

\* Quo(x, 1e8).Text('f', 5)
AmountText(x) == Text(x.neg, x.mag, Scale \div 100000, 5, 100000)

\* Quo(Mul(amountIn, wbtcPrice), 1e8).Text('f', 2)
VolText(x, price) == Text(x.neg, x.mag * price, Scale \div 100, 2, 100)

\* time.Unix(timestamp, 0).In(Asia/Shanghai).Format("2006-01-02 15:04:05")
ReadableTime(ts) == IF ts = GoodTimestamp THEN "2023-11-15 06:13:20" ELSE ""

\* FormatSwap of a swap whose amounts parse: "" when the timestamp does not
\* parse, else the message
FormatSwap(swap) ==
    LET d == Direction(swap)
    IN  IF ~ParsesAsInt(swap.BlockTimestamp) THEN ""
        ELSE ReadableTime(swap.BlockTimestamp) \o "  "
             \o AmountText(d.amountIn) \o " " \o d.tokenIn \o " -> "
             \o AmountText(d.amountOut) \o " " \o d.tokenOut
             \o " Vol: $" \o VolText(d.amountIn, WbtcPrice(swap))

\* --------------------------------------------------------- sendNotification
\* Answers to one http.Get: status 200, another status, or a transport error.
GetResults == {"200", "500", "error"}

\* a loop that returns at the first GET that is not answered 200
GetsUntilFailure(urls, message, results) ==
    LET failed == {i \in 1..Len(urls) : results[i] # "200"}
        last == IF failed = {} THEN Len(urls)
                ELSE CHOOSE i \in failed : \A j \in failed : i <= j
    IN  IF message = "" THEN <<>>
        ELSE [i \in 1..last |->
                [url |-> urls[i] \o message \o "?call=1", result |-> results[i]]]

\* The GETs of one call: none for an empty message, else one per target.
Gets(urls, message, results) ==
    IF message = "" THEN <<>>
    ELSE [i \in 1..Len(urls) |->
            [url |-> urls[i] \o message \o "?call=1", result |-> results[i]]]

\* some GET of the call was answered 200
Delivered(gets) == \E i \in 1..Len(gets) : gets[i].result = "200"

\* a sendNotification that returns an error when no GET was answered 200
SendFailsUndelivered(gets) == ~Delivered(gets)

\* sendNotification's returned error is nil on every path
SendFails(gets) == FALSE

NoSend == [hash |-> "", message |-> "", targets |-> <<>>, gets |-> <<>>]

\* ------------------------------------------------------------- initial state
NoPass == [config |-> ZeroConfig, file |-> NoFile, fresh |-> FALSE]

NoOverlap == [during |-> FALSE, config |-> ZeroConfig]

\* the loader assigns cfg to configData: a pass that is running is overlapped
Overlapped(cfg) ==
    IF pc # "idle" THEN [during |-> TRUE, config |-> cfg] ELSE overlap

\* Non-decreasing block sequences of length n.
BlockSeqs(n) ==
    {b \in [1..n -> Blocks] : \A i \in 1..n : \A j \in 1..n : i < j => b[i] <= b[j]}

\* Remote logs of up to max swaps.
SmallLogs(max) ==
    UNION {
      { [p \in 1..n |->
           [block |-> b[p],
            tx |-> Tx(p),
            ts |-> t[p],
            amount0 |-> GoodAmount0,
            amount1 |-> GoodAmount1,
            btcPrice |-> NoPrice]]
        : b \in BlockSeqs(n), t \in [1..n -> {GoodTimestamp, BadTimestamp}] }
      : n \in 0..max }

\* Swaps per block of the long logs: a few, a page less one, a page.
BlockCounts == (0..MaxSmall) \cup {pageSize - 1, pageSize}

\* Swaps in the blocks BaseBlock + 1 .. BaseBlock + k of a log with counts c.
RECURSIVE UpTo(_, _)
UpTo(c, k) == IF k = 0 THEN 0 ELSE UpTo(c, k - 1) + c[k]

\* Remote logs of more than a page, c[k] swaps in block BaseBlock + k.
BigLogs ==
    { [p \in 1..UpTo(c, MaxBlock) |->
         [block |-> BaseBlock +
                    (CHOOSE k \in 1..MaxBlock : UpTo(c, k - 1) < p /\ p <= UpTo(c, k)),
          tx |-> Tx(p),
          ts |-> GoodTimestamp,
          amount0 |-> GoodAmount0,
          amount1 |-> GoodAmount1,
          btcPrice |-> NoPrice]]
      : c \in [1..MaxBlock -> BlockCounts] }

\* State files the program can start from.
InitConfigs ==
    { [BarkAPIURLs |-> u, LastBlockNumber |-> l, CurrentTxHashes |-> h]
      : u \in {<<DefaultURL, SecondURL>>},
        l \in {ToString(BaseBlock), ToString(BaseBlock + 1)},
        h \in {<<>>, <<Tx(1)>>} }

InitFiles == {NoFile, GarbageFile} \cup {Encode(c) : c \in InitConfigs}

\* What an operator may write into the file while the program runs.
EditFiles ==
    {GarbageFile,
     Encode([BarkAPIURLs |-> <<DefaultURL>>,
             LastBlockNumber |-> ToString(BaseBlock),
             CurrentTxHashes |-> <<>>])}

\* No pass has returned yet; on says whether the run records the hashes.
NoHistory == [on |-> FALSE, hashes |-> {}]
EmptyHistory == [on |-> TRUE, hashes |-> {}]

InitAll(logs, cap, files, history) ==
    /\ remote \in logs
    /\ logCap = cap
    /\ edited = FALSE
    /\ fresh = FALSE
    /\ file \in files
    /\ events = 0
    /\ configData = ZeroConfig
    /\ wpc = "open"
    /\ newConfig = ZeroConfig
    /\ booted = FALSE
    /\ pc = "idle"
    /\ startBlock = 0
    /\ allSwaps = <<>>
    /\ idx = 0
    /\ newTxHashes = <<>>
    /\ lastSend = NoSend
    /\ passStart = NoPass
    /\ handed = <<>>
    /\ pages = <<>>
    /\ undelivered = ""
    /\ overlap = NoOverlap
    /\ outcome = "none"
    /\ earlier = history

InitWith(logs, cap, files) == InitAll(logs, cap, files, NoHistory)

Init == InitWith(SmallLogs(MaxLog), MaxLog, InitFiles)

\* ------------------------------------------------------ loadConfig, watcher
LoaderReturns ==
    /\ wpc' = "wait"
    /\ booted' = TRUE

\* os.Open fails: the default config is stored (without the lock), then saved
LoadConfigDefault ==
    /\ wpc = "open"
    /\ file.kind = "missing"
    /\ configData' = DefaultConfig
    /\ wpc' = "defCreate"
    /\ overlap' = Overlapped(DefaultConfig)
    /\ fresh' = FALSE
    /\ UNCHANGED <<remote, logCap, edited, file, events, newConfig, booted,
                   passVars, passStart, handed, pages, undelivered, outcome, earlier>>

\* saveConfig of the default branch: os.Create
LoadConfigSaveCreate ==
    /\ wpc = "defCreate"
    /\ file' = EmptyFile
    /\ events' = IF booted THEN Notify(events) ELSE events
    /\ wpc' = "defEncode"
    /\ UNCHANGED <<remote, logCap, edited, configData, newConfig, booted,
                   passVars, histVars>>

\* saveConfig of the default branch: Encode, then loadConfig returns
LoadConfigSaveEncode ==
    /\ wpc = "defEncode"
    /\ file' = Encode(configData)
    /\ events' = IF booted THEN Notify(events) ELSE events
    /\ LoaderReturns
    /\ UNCHANGED <<remote, logCap, edited, configData, newConfig, passVars,
                   histVars>>

\* decoder.Decode fails: loadConfig returns, configData is left as it is
LoadConfigDecodeError ==
    /\ wpc = "open"
    /\ file.kind # "missing"
    /\ ~Decodable(file)
    /\ LoaderReturns
    /\ UNCHANGED <<remote, logCap, edited, file, events, configData, newConfig,
                   passVars, histVars>>

\* decoder.Decode(&newConfig) succeeds
LoadConfigDecode ==
    /\ wpc = "open"
    /\ Decodable(file)
    /\ newConfig' = Decode(file)
    /\ wpc' = "assign"
    /\ UNCHANGED <<remote, logCap, edited, file, events, configData, booted,
                   passVars, histVars>>

\* configMutex.Lock(); configData = newConfig; configMutex.Unlock()
LoadConfigAssign ==
    /\ wpc = "assign"
    /\ configData' = newConfig
    /\ newConfig' = ZeroConfig
    /\ LoaderReturns
    /\ overlap' = Overlapped(newConfig)
    /\ fresh' = (fresh /\ newConfig = configData)
    /\ UNCHANGED <<remote, logCap, edited, file, events, passVars,
                   passStart, handed, pages, undelivered, outcome, earlier>>

\* watchConfig receives a Write event and calls loadConfig
WatchConfig ==
    /\ wpc = "wait"
    /\ booted
    /\ events > 0
    /\ events' = events - 1
    /\ wpc' = "open"
    /\ UNCHANGED <<remote, logCap, edited, file, configData, newConfig, booted,
                   passVars, histVars>>

\* ------------------------------------------------------------- environment
\* The remote log gains a swap, in the newest block or a later one.
RemoteAppend ==
    /\ Len(remote) < logCap
    /\ \E b \in Blocks : \E t \in {GoodTimestamp, BadTimestamp} :
         /\ \A i \in 1..Len(remote) : remote[i].block <= b
         /\ remote' = Append(remote,
                [block |-> b, tx |-> Tx(Len(remote) + 1), ts |-> t,
                 amount0 |-> GoodAmount0, amount1 |-> GoodAmount1,
                 btcPrice |-> NoPrice])
    /\ UNCHANGED <<logCap, edited, file, events, configData, loaderVars,
                   passVars, histVars>>

\* Somebody rewrites the state file while the program runs.
ExternalEdit ==
    /\ booted
    /\ ~edited
    /\ edited' = TRUE
    /\ \E f \in EditFiles : file' = f
    /\ events' = Notify(events)
    /\ fresh' = FALSE
    /\ UNCHANGED <<remote, logCap, configData, loaderVars, passVars,
                   passStart, handed, pages, undelivered, overlap, outcome, earlier>>

\* --------------------------------------------------------------- GraphTask
\* the hashes of the pass that returns join those of the earlier passes
Remember(hashes) ==
    IF earlier.on THEN [earlier EXCEPT !.hashes = @ \cup Range(hashes)]
    ELSE earlier

\* GraphTask returns: its locals and the history of the pass are dropped
PassReturns ==
    /\ pc' = "idle"
    /\ startBlock' = 0
    /\ allSwaps' = <<>>
    /\ idx' = 0
    /\ newTxHashes' = <<>>
    /\ lastSend' = NoSend
    /\ passStart' = NoPass
    /\ handed' = <<>>
    /\ undelivered' = ""
    /\ overlap' = NoOverlap
    /\ earlier' = Remember(handed)

\* the job runner calls GraphTask; fetchSwaps reads the checkpoint
Tick ==
    /\ pc = "idle"
    /\ booted
    /\ pc' = "fetch"
    /\ startBlock' = Atoi(getLastBlockNumber)
    /\ allSwaps' = <<>>
    /\ passStart' = [config |-> configData, file |-> file, fresh |-> fresh]
    /\ handed' = <<>>
    /\ pages' = <<>>
    /\ undelivered' = ""
    /\ overlap' = NoOverlap
    /\ outcome' = "running"
    /\ lastSend' = NoSend
    /\ UNCHANGED <<remote, logCap, edited, file, events, configData, loaderVars,
                   idx, newTxHashes, fresh, earlier>>

\* a failing fetch that stores the block it had reached
FetchFailAdvances ==
    /\ pc = "fetch"
    /\ PassReturns
    /\ outcome' = "error"
    /\ pages' = pages
    /\ configData' =
         [configData EXCEPT !.LastBlockNumber = ToString(startBlock)]
    /\ UNCHANGED <<remote, logCap, edited, file, events, loaderVars, fresh>>

\* a failing fetch that returns the swaps of the pages it had got
FetchFailReturnsPages ==
    /\ pc = "fetch"
    /\ outcome' = "error"
    /\ IF allSwaps = <<>>
       THEN /\ PassReturns
            /\ pages' = pages
       ELSE /\ pc' = "filter"
            /\ idx' = 1
            /\ newTxHashes' = <<>>
            /\ UNCHANGED <<startBlock, allSwaps, lastSend, passStart, handed,
                           pages, undelivered, overlap, earlier>>
    /\ UNCHANGED <<remote, logCap, edited, file, events, configData, loaderVars,
                   fresh>>

\* a page request fails: fetchSwaps returns nil, err and GraphTask returns err
FetchFail ==
    /\ pc = "fetch"
    /\ PassReturns
    /\ outcome' = "error"
    /\ pages' = pages
    /\ UNCHANGED <<remote, logCap, edited, file, events, configData, loaderVars,
                   fresh>>

\* an empty fetch that calls saveConfig before it returns
EmptyFetchSaves ==
    /\ PassReturns
    /\ pages' = <<>>
    /\ outcome' = "empty"
    /\ file' = Encode(configData)
    /\ events' = Notify(events)
    /\ UNCHANGED configData

\* if len(swaps) == 0 { return nil }
EmptyFetchReturn ==
    /\ PassReturns
    /\ pages' = <<>>
    /\ outcome' = "empty"
    /\ UNCHANGED <<file, events, configData>>

\* a page request succeeds
FetchPage ==
    /\ pc = "fetch"
    /\ LET page == Query(remote, pageSize, startBlock)
           all == Accumulate(allSwaps, page)
       IN  IF MorePages(page)
           THEN /\ pc' = "fetch"
                /\ allSwaps' = all
                /\ startBlock' = NextStartBlock(page)
                /\ pages' = Append(pages, Len(page))
                /\ UNCHANGED <<idx, newTxHashes, lastSend, passStart, handed,
                               undelivered, overlap, outcome, earlier, file, events,
                               configData>>
           ELSE IF Len(all) = 0
           THEN EmptyFetchReturn
           ELSE /\ pc' = "filter"
                /\ allSwaps' = all
                /\ startBlock' = IF Len(page) = 0 THEN startBlock
                                 ELSE NextStartBlock(page)
                /\ pages' = Append(pages, Len(page))
                /\ idx' = 1
                /\ newTxHashes' = <<>>
                /\ UNCHANGED <<lastSend, passStart, handed, undelivered,
                               overlap, outcome, earlier, file, events, configData>>
    /\ UNCHANGED <<remote, logCap, edited, loaderVars, fresh>>

\* position after the loop body for swaps[idx]
LoopNext ==
    /\ idx' = idx + 1
    /\ pc' = IF idx + 1 > Len(allSwaps) THEN "setLast" ELSE "filter"

\* if !contains(getCurrentTxHashes(), swap.TransactionHash)
IsCandidate(swap) == ~contains(getCurrentTxHashes, swap.TransactionHash)

\* the membership test of the loop body
Filter ==
    /\ pc = "filter"
    /\ IF IsCandidate(allSwaps[idx])
       THEN /\ pc' = "send"
            /\ handed' = Append(handed, allSwaps[idx].TransactionHash)
            /\ UNCHANGED idx
       ELSE /\ LoopNext
            /\ UNCHANGED handed
    /\ lastSend' = NoSend
    /\ UNCHANGED <<remote, logCap, edited, file, events, configData, loaderVars,
                   startBlock, allSwaps, newTxHashes, fresh, passStart, pages,
                   undelivered, overlap, outcome, earlier>>

\* sendNotification(swap) panics in FormatSwap: GraphTask and JobWrapper.Run
\* recover nothing, so the panic reaches the job runner, which is not part of
\* this repository: the process dies, or the runner recovers and the pass is
\* abandoned where it was.
SendPanics ==
    /\ pc = "send"
    /\ FormatPanics(allSwaps[idx])
    /\ \/ /\ pc' = "crashed"
          /\ wpc' = "crashed"
          /\ outcome' = "crashed"
          /\ UNCHANGED <<newConfig, booted, startBlock, allSwaps, idx,
                         newTxHashes, lastSend, passStart, handed, pages,
                         undelivered, overlap, earlier>>
       \/ /\ PassReturns
          /\ pages' = <<>>
          /\ outcome' = "panic"
          /\ UNCHANGED loaderVars
    /\ UNCHANGED <<remote, logCap, edited, file, events, configData, fresh>>

\* sendNotification(swap), then the append to newTxHashes
Send ==
    /\ pc = "send"
    /\ ~FormatPanics(allSwaps[idx])
    /\ LET swap == allSwaps[idx]
           message == FormatSwap(swap)
           urls == IF message = "" THEN <<>> ELSE getBarkAPIURLs
       IN  \E results \in [1..Len(urls) -> GetResults] :
             LET gets == Gets(urls, message, results)
             IN  /\ lastSend' = [hash |-> swap.TransactionHash,
                                 message |-> message,
                                 targets |-> urls, gets |-> gets]
                 /\ IF SendFails(gets)
                    THEN UNCHANGED <<newTxHashes, undelivered>>
                    ELSE /\ newTxHashes' =
                              Append(newTxHashes, swap.TransactionHash)
                         /\ undelivered' =
                              IF Delivered(gets) THEN undelivered
                              ELSE swap.TransactionHash
    /\ LoopNext
    /\ UNCHANGED <<remote, logCap, edited, file, events, configData, loaderVars,
                   startBlock, allSwaps, fresh, passStart, handed, pages,
                   overlap, outcome, earlier>>

\* setLastBlockNumber(swaps[0].BlockNumber)
SetLastBlockNumber ==
    /\ pc = "setLast"
    /\ configData' =
         [configData EXCEPT !.LastBlockNumber = allSwaps[1].BlockNumber]
    /\ pc' = "setHashes"
    /\ lastSend' = NoSend
    /\ UNCHANGED <<remote, logCap, edited, file, events, loaderVars, startBlock,
                   allSwaps, idx, newTxHashes, histVars>>

\* setCurrentTxHashes(newTxHashes)
SetCurrentTxHashes ==
    /\ pc = "setHashes"
    /\ configData' = [configData EXCEPT !.CurrentTxHashes = newTxHashes]
    /\ pc' = "create"
    /\ UNCHANGED <<remote, logCap, edited, file, events, loaderVars, startBlock,
                   allSwaps, idx, newTxHashes, lastSend, histVars>>

\* saveConfig: os.Create truncates the file
SaveConfigCreate ==
    /\ pc = "create"
    /\ file' = EmptyFile
    /\ events' = Notify(events)
    /\ pc' = "encode"
    /\ UNCHANGED <<remote, logCap, edited, configData, loaderVars, startBlock,
                   allSwaps, idx, newTxHashes, lastSend, histVars>>

\* saveConfig: Encode(&configData) writes the file; GraphTask returns nil
SaveConfigEncode ==
    /\ pc = "encode"
    /\ file' = Encode(configData)
    /\ events' = Notify(events)
    /\ PassReturns
    /\ pages' = <<>>
    /\ outcome' = "checkpoint"
    /\ fresh' = TRUE
    /\ UNCHANGED <<remote, logCap, edited, configData, loaderVars>>

\* ------------------------------------------------------------ specification
Loader ==
    \/ LoadConfigDefault
    \/ LoadConfigSaveCreate
    \/ LoadConfigSaveEncode
    \/ LoadConfigDecodeError
    \/ LoadConfigDecode
    \/ LoadConfigAssign
    \/ WatchConfig

Pass ==
    \/ Tick
    \/ FetchFail
    \/ FetchPage
    \/ Filter
    \/ Send
    \/ SetLastBlockNumber
    \/ SetCurrentTxHashes
    \/ SaveConfigCreate
    \/ SaveConfigEncode

\* The program and the remote log.
Next == Loader \/ Pass \/ RemoteAppend

Spec == Init /\ [][Next]_vars

\* The same with a remote log that grows one swap longer.
InitDeep == InitWith(SmallLogs(MaxLog + 1), MaxLog + 1, InitFiles)

SpecDeep == InitDeep /\ [][Next]_vars

\* The same as Spec, with the hashes of the returned passes recorded.
InitHistory == InitAll(SmallLogs(MaxLog), MaxLog, InitFiles, EmptyHistory)

SpecHistory == InitHistory /\ [][Next]_vars

\* fetchSwaps against long remote logs that do not change: init() loads a
\* state file and the job runner calls GraphTask.
InitFetch == InitWith(BigLogs, 0, {Encode(c) : c \in InitConfigs})

NextFetch ==
    \/ LoadConfigDecode
    \/ LoadConfigAssign
    \/ Tick
    \/ FetchFail
    \/ FetchPage

SpecFetch == InitFetch /\ [][NextFetch]_vars

\* One pass after another over a remote log of one swap whose amounts, price
\* and timestamp are any of the strings of the model, parseable or not;
\* watchConfig is not running.
AmountStrings == {ToString(a) : a \in Amounts} \cup {NotANumber}

PriceStrings == {NoPrice, NotANumber} \cup {ToString(q) : q \in Prices}

RichLogs ==
    { <<[block |-> BaseBlock + 1, tx |-> Tx(2), ts |-> t,
         amount0 |-> a0, amount1 |-> a1, btcPrice |-> q]>>
      : a0 \in AmountStrings, a1 \in AmountStrings, q \in PriceStrings,
        t \in {GoodTimestamp, BadTimestamp} }

InitFormat ==
    InitWith(RichLogs, 0,
             {Encode([BarkAPIURLs |-> <<DefaultURL>>,
                      LastBlockNumber |-> ToString(BaseBlock),
                      CurrentTxHashes |-> <<>>])})

NextFormat ==
    \/ LoadConfigDecode
    \/ LoadConfigAssign
    \/ Pass
    \/ SendPanics

SpecFormat == InitFormat /\ [][NextFormat]_vars

\* loadConfig of any decodable state file, then saveConfig called with no
\* change of configData in between, any number of times.
RichFiles ==
    { [kind |-> "json",
       barkAPIURLs |-> IF "barkAPIURLs" \in a THEN <<>> ELSE u,
       lastBlockNumber |-> IF "lastBlockNumber" \in a THEN "" ELSE l,
       currentTxHashes |-> IF "currentTxHashes" \in a THEN <<>> ELSE h,
       absent |-> a,
       unknown |-> k]
      : u \in {<<>>, <<DefaultURL>>, <<DefaultURL, SecondURL>>},
        l \in {"", ToString(BaseBlock), ToString(BaseBlock + 1)},
        h \in {<<>>, <<Tx(1)>>, <<Tx(1), Tx(2)>>},
        a \in SUBSET {"barkAPIURLs", "lastBlockNumber", "currentTxHashes"},
        k \in BOOLEAN }

InitRoundTrip == InitWith({<<>>}, 0, RichFiles)

\* saveConfig is called after loadConfig has returned
SaveAgain ==
    /\ wpc = "wait"
    /\ booted
    /\ pc = "idle"
    /\ wpc' = "defCreate"
    /\ UNCHANGED <<remote, logCap, edited, file, events, configData, newConfig,
                   booted, passVars, histVars>>

NextRoundTrip ==
    \/ LoadConfigDecode
    \/ LoadConfigAssign
    \/ SaveAgain
    \/ LoadConfigSaveCreate
    \/ LoadConfigSaveEncode

SpecRoundTrip == InitRoundTrip /\ [][NextRoundTrip]_vars

\* The same as Spec with one external modification of the state file.
NextEdit == Next \/ ExternalEdit

SpecEdit == Init /\ [][NextEdit]_vars

\* One pass after another over a remote log of more than a page, the state
\* file holding the first target and an empty dedup set; watchConfig is not
\* running and the log does not change.
InitBigPass ==
    InitWith(BigLogs, 0,
             {Encode([BarkAPIURLs |-> <<DefaultURL>>,
                      LastBlockNumber |-> ToString(BaseBlock),
                      CurrentTxHashes |-> <<>>])})

NextBigPass ==
    \/ LoadConfigDecode
    \/ LoadConfigAssign
    \/ Pass

SpecBigPass == InitBigPass /\ [][NextBigPass]_vars

\* --------------------------------------------------------------- properties
\* the block number fetchSwaps started from in the running pass
SinceBlock == Atoi(passStart.config.LastBlockNumber)

\* GraphTask's checkpoint is complete: saveConfig has written the file
CheckpointDone == pc = "encode" /\ pc' = "idle"

\* C1: a swap whose hash is in the dedup set when a pass starts is never
\* handed to sendNotification during that pass.
C1_DedupNeverRenotified ==
    \A i \in 1..Len(handed) :
        ~contains(passStart.config.CurrentTxHashes, handed[i])

\* C2: against an unchanging remote log a successful fetch returns every
\* remote swap whose block number is above the block it started from, also
\* when more than pageSize such swaps exist.
C2_FetchReturnsEveryNewSwap ==
    pc = "filter" =>
        \A i \in 1..Len(remote) :
            remote[i].block > SinceBlock => contains(allSwaps, ToSwap(remote[i]))

\* C3: after every pass that reaches the checkpoint the stored
\* lastBlockNumber is at least what it was when that pass started.
C3_LastBlockNumberNeverDecreases ==
    [][CheckpointDone =>
          Atoi(configData'.LastBlockNumber) >= SinceBlock]_vars

\* C4: when the fetch fails the pass returns without changing
\* lastBlockNumber, the dedup set or the state file, and the next tick can
\* fetch from the lastBlockNumber that is stored.
C4_FetchErrorChangesNothing ==
    [][(pc = "fetch" /\ outcome' = "error") =>
          /\ configData' = configData
          /\ file' = file
          /\ events' = events
          /\ pc' = "idle"]_vars

C4_Witness ==
    /\ outcome = "error"
    /\ pc = "idle"
    /\ Decodable(file)
    /\ configData = Decode(file)

\* fetchSwaps returns to GraphTask with no error and no swap
EmptyFetchStep ==
    /\ pc = "fetch"
    /\ pc' # "fetch"
    /\ outcome' # "error"
    /\ Accumulate(allSwaps, Query(remote, pageSize, startBlock)) = <<>>

\* C5: when the fetch succeeds with no swap the pass is a no-op: nothing was
\* handed to sendNotification, configData is unchanged, the state file is not
\* written, and the pass returns.
C5_EmptyFetchIsNoOp ==
    [][EmptyFetchStep =>
          /\ handed = <<>>
          /\ configData' = configData
          /\ file' = file
          /\ events' = events
          /\ pc' = "idle"]_vars

C5_Witness ==
    /\ outcome = "empty"
    /\ pc = "idle"
    /\ remote # <<>>

\* C6: after a pass that fetched at least one swap, lastBlockNumber is the
\* block number of the first swap of the fetch, the dedup set is the list of
\* hashes processed in the pass, and the state file holds that state.
C6_CheckpointIsThePass ==
    [][CheckpointDone =>
          /\ configData'.LastBlockNumber = allSwaps[1].BlockNumber
          /\ configData'.CurrentTxHashes = newTxHashes
          /\ file' = Encode(configData')]_vars

\* C7: the dedup set a pass stores holds only hashes whose notification was
\* delivered: no hash in it went without a GET answered 200.
C7_DedupOnlyDelivered ==
    [][(pc = "setHashes" /\ pc' = "create") =>
          \/ undelivered = ""
          \/ ~contains(configData'.CurrentTxHashes, undelivered)]_vars

\* the remote log has no swap above the block the running pass started from
NoNewData == \A i \in 1..Len(remote) : remote[i].block <= SinceBlock

\* C8: a pass that starts in the state the last checkpoint left, with no new
\* remote data, changes nothing: none of its steps changes configData or the
\* state file, and it does not get past the fetch.
C8_SecondPassIdempotent ==
    [][(pc # "idle" /\ passVars' # passVars /\ passStart.fresh /\ NoNewData) =>
          /\ configData' = configData
          /\ file' = file
          /\ events' = events
          /\ pc' \in {"fetch", "idle"}]_vars

C8_Witness ==
    /\ outcome = "empty"
    /\ pc = "idle"
    /\ fresh
    /\ remote # <<>>
    /\ \A i \in 1..Len(remote) :
          remote[i].block <= Atoi(configData.LastBlockNumber)

\* the number of remote swaps above the block the fetch started from
NewerCount == Len(Query(remote, Len(remote), SinceBlock))

\* C9: fetchSwaps terminates: a page is requested only after full pages, and
\* the number of pages is bounded by the number of available records.
C9_FetchTerminates ==
    /\ pc = "fetch" => \A i \in 1..Len(pages) : pages[i] = pageSize
    /\ Len(pages) <= (NewerCount \div pageSize) + 1

C9_Witness ==
    /\ pc = "filter"
    /\ Len(pages) = 2
    /\ pages[1] = pageSize
    /\ pages[2] > 0

PairOf(cfg) == <<cfg.LastBlockNumber, cfg.CurrentTxHashes>>

\* both fields of cfg are of the checkpoint of the running pass, or both are
\* what the loader assigned during the pass
Coherent(cfg) ==
    \/ PairOf(cfg) = <<allSwaps[1].BlockNumber, newTxHashes>>
    \/ overlap.during /\ PairOf(cfg) = PairOf(overlap.config)

\* C10: lastBlockNumber and the dedup set come together from one checkpoint
\* or one load, in configData when the checkpoint has set both and in the
\* state file when the checkpoint has written it.
C10_NoTornPair ==
    [][/\ (pc = "setHashes" /\ pc' = "create") => Coherent(configData')
       /\ CheckpointDone => Coherent(Decode(file'))]_vars

\* ------------------------------------------------------------ configMutex
\* How configMutex is held by the access to configData that the loader makes
\* in its next step: loadConfig stores the default and saveConfig encodes
\* configData with no lock, the assignment of newConfig takes Lock.
LoaderAccess ==
    IF wpc = "open" /\ file.kind = "missing" THEN "none"
    ELSE IF wpc = "defEncode" THEN "none"
    ELSE IF wpc = "assign" THEN "Lock"
    ELSE "no access"

\* The same for the next step of GraphTask: the get accessors take RLock, the
\* set accessors take Lock, saveConfig encodes configData with no lock.
PassAccess ==
    IF pc \in {"idle", "filter", "send"} THEN "RLock"
    ELSE IF pc \in {"setLast", "setHashes"} THEN "Lock"
    ELSE IF pc = "encode" THEN "none"
    ELSE "no access"

\* loadConfig called by watchConfig is between its first and last statement
WatcherLoading == booted /\ wpc # "wait"

\* GraphTask's saveConfig is between os.Create and the end of Encode
PassSaving == pc = "encode"

\* C11: the loadConfig of the watcher never runs while a pass's saveConfig
\* runs, and every access to configData, by the loader or by the pass,
\* happens with configMutex held.
C11_LockDiscipline ==
    /\ [](~(WatcherLoading /\ PassSaving))
    /\ [][/\ wpc' # wpc => LoaderAccess # "none"
          /\ passVars' # passVars => PassAccess # "none"]_vars

\* C12: when loadConfig finds the state file missing or not decodable, it
\* stores the default config in configData and goes on to save it, and the
\* save writes the default config to the state file.
C12_DefaultOnBadFile ==
    [][/\ (wpc = "open" /\ wpc' # wpc /\ ~Decodable(file)) =>
             configData' = DefaultConfig /\ wpc' = "defCreate"
       /\ (wpc = "defEncode" /\ wpc' # wpc) =>
             file' = Encode(DefaultConfig)]_vars

\* sendNotification is called for a swap with an unparseable amount
PanicStep == pc = "send" /\ FormatPanics(allSwaps[idx]) /\ pc' # pc

\* the next fetch will not return swap, or the loop will skip it
Settled(cfg, swap) ==
    \/ Atoi(cfg.LastBlockNumber) >= Atoi(swap.BlockNumber)
    \/ contains(cfg.CurrentTxHashes, swap.TransactionHash)

\* C13: a swap with an unparseable amount, price or timestamp never crashes
\* the process, and the pass that meets it leaves a state in which the next
\* ticks do not meet the same record again.
C13_BadRecordConfined ==
    /\ [](pc # "crashed")
    /\ [][PanicStep => Settled(configData', allSwaps[idx])]_vars

\* sendNotification returns for a swap that FormatSwap can format
SendStep ==
    /\ pc = "send"
    /\ pc' # pc
    /\ ~FormatPanics(allSwaps[idx])

\* C14: for a message that is not empty sendNotification issues one GET per
\* configured target, in order, to target + message + "?call=1", whatever
\* the answers to the earlier GETs.
C14_EveryTargetAttempted ==
    [][(SendStep /\ FormatSwap(allSwaps[idx]) # "") =>
          LET urls == configData.BarkAPIURLs
              gets == lastSend'.gets
          IN  /\ Len(gets) = Len(urls)
              /\ \A i \in 1..Len(urls) :
                    gets[i].url =
                        urls[i] \o FormatSwap(allSwaps[idx]) \o "?call=1"]_vars

C14_Witness ==
    /\ lastSend.message # ""
    /\ Len(lastSend.gets) = 2
    /\ lastSend.gets[1].result = "error"
    /\ lastSend.gets[2].result = "500"

\* C15: when a page request fails, also after earlier pages succeeded,
\* fetchSwaps returns no swap: GraphTask returns with its swaps empty, and
\* the pass has handed nothing to sendNotification.
C15_NoPartialFetch ==
    [][(pc = "fetch" /\ outcome' = "error") =>
          /\ pc' = "idle"
          /\ allSwaps' = <<>>
          /\ handed = <<>>
          /\ configData' = configData
          /\ file' = file]_vars

C15_Witness ==
    /\ outcome = "error"
    /\ pc = "idle"
    /\ Len(pages) = 1
    /\ pages[1] = pageSize

\* the number a decimal string of the model stands for
NumberOf(s) == CHOOSE a \in Amounts : ToString(a) = s

\* the number a *big.Float stands for
ValueOf(x) == IF x.neg THEN -x.mag ELSE x.mag

Content(f) ==
    [targets |-> IF "barkAPIURLs" \in f.absent THEN <<>> ELSE f.barkAPIURLs,
     last |-> IF "lastBlockNumber" \in f.absent THEN ""
              ELSE f.lastBlockNumber,
     hashes |-> IF "currentTxHashes" \in f.absent THEN <<>>
                ELSE f.currentTxHashes]

AllTargetsFailed(send) ==
    /\ Len(send.gets) > 0
    /\ \A i \in 1..Len(send.gets) : send.gets[i].result # "200"

C19_BadTimestampSkipped ==
    [][(pc = "send" /\ pc' # pc
           /\ ~ParsesAsInt(allSwaps[idx].BlockTimestamp)) =>
          /\ lastSend'.hash = allSwaps[idx].TransactionHash
          /\ lastSend'.message = ""
          /\ lastSend'.gets = <<>>
          /\ pc' = IF idx < Len(allSwaps) THEN "filter" ELSE "setLast"]_vars

\* C20: within one pass no transaction hash is handed to sendNotification
\* more than once, whatever the remote log holds, a full first page followed
\* by a second page included.
C20_NoHashHandedTwice ==
    \A i, j \in 1..Len(handed) : handed[i] = handed[j] => i = j

\* C21: with no restart and no external edit of the state file, a hash that
\* was handed to sendNotification in a pass that has returned is not handed
\* to it again in any later pass.
C21_NeverHandedInLaterPass ==
    pc = "send" => allSwaps[idx].TransactionHash \notin earlier.hashes

\* C22: the checkpoint never skips a swap: when a pass sets lastBlockNumber
\* to B, every swap of the remote log in a block above the block the pass
\* started from and at most B has been handed to sendNotification in this
\* pass or was in the dedup set the pass started with (the swaps at or below
\* the starting block are those of the earlier checkpoints).
C22_CheckpointSkipsNoSwap ==
    [][(pc = "setLast" /\ pc' = "setHashes") =>
          \A i \in 1..Len(remote) :
              (/\ remote[i].block > SinceBlock
               /\ remote[i].block <= Atoi(configData'.LastBlockNumber)) =>
                  \/ contains(handed, remote[i].tx)
                  \/ contains(passStart.config.CurrentTxHashes, remote[i].tx)]_vars

====
